---- MODULE Spec2Model ----
(***************************************************************************)
(* State-machine model of BMWCE02ChargeController, the charge estimator of *)
(* the BMW CE-02 Charge Tracker, in its two revisions:                     *)
(*   "fixed"    src/sensor.py  (two-phase fixed power, manual start/stop)  *)
(*   "measured" src/custom_components/bmw_ce02_charge_tracker/sensor.py    *)
(*              (power read from an external sensor, automatic sessions)   *)
(*                                                                         *)
(* Fixed-point units (all arithmetic of the source is kept exact):         *)
(*   time    1 = 0.1 s          power  1 = 1 W                             *)
(*   energy  1 = 1 W x 0.1 s    SoC    1 = 1/PCT percent                   *)
(* Every datetime.now() of one handler run reads the same clock value.     *)
(* Each operation takes as input the time d elapsed since the previous     *)
(* operation and, where it reads the power sensor, the sensor state ps.    *)
(* Behaviours are bounded to MaxOps operations.                            *)
(***************************************************************************)
EXTENDS Integers, Sequences, FiniteSets, TLC

VARIABLES variant, min_charging_power_w, power_sensor_entity_id, now, ops,
          power_state, c, prev_op, last_op, delivered, raised,
          consecutive_ticks, callback_func

vars == <<variant, min_charging_power_w, power_sensor_entity_id, now, ops,
          power_state, c, prev_op, last_op, delivered, raised,
          consecutive_ticks, callback_func>>

(* ---------------------------- bounds ---------------------------------- *)
MaxOps == 3

(* --------------------------- constants -------------------------------- *)
None == -1
TimeUnitsPerSecond == 10
SECONDS_PER_HOUR == 3600
BATTERY_CAPACITY_WH == 3920
BATTERY_CAPACITY == BATTERY_CAPACITY_WH * SECONDS_PER_HOUR * TimeUnitsPerSecond
PCT == BATTERY_CAPACITY \div 100
HUNDRED == 100 * PCT
SOC_THRESHOLD_PHASE2 == 80 * PCT
CHARGER_POWER_PHASE1_W == 900
CHARGER_POWER_PHASE2_W == 517
LOST_FACTOR_NUM == 92
LOST_FACTOR_DEN == 100
DEFAULT_MIN_CHARGING_POWER_W == 10
DEFAULT_SOC == 50 * PCT
EPSILON_MEASURED == 1
EPSILON_FIXED_SECONDS == 1
EPSILON_FIXED == EPSILON_FIXED_SECONDS * TimeUnitsPerSecond
ESTIMATION_POWER_DEFAULT_W == 900
ESTIMATION_POWER_FLOOR_W == 200

(* ----------------------------- inputs --------------------------------- *)
Variants == {"fixed", "measured"}
MinPowerChoices == {23}
RawWatts == {-25, 25, 275}
UPDATE_INTERVAL_CHARGING_SECONDS == 60
TICK_INTERVAL == UPDATE_INTERVAL_CHARGING_SECONDS * TimeUnitsPerSecond
DtChoices(v) == IF v = "measured" THEN {0, EPSILON_MEASURED, TICK_INTERVAL}
                ELSE {0, EPSILON_FIXED, TICK_INTERVAL}
SocInputs == {-1 * PCT, 0, 999 * (PCT \div 10), HUNDRED, 150 * PCT}
\* observer functions: "ok" returns, "bad" raises; when _notify_updates
\* calls them, "leaver" removes itself from the controller and "remover"
\* removes "ok" (the call made at registration removes nothing)
Observers == {"ok", "bad", "leaver", "remover"}
CoreObservers == {"ok"}
NoCallback == "none"

\* config_entry.data.get(CONF_POWER_SENSOR_ENTITY_ID)
POWER_SENSOR == "sensor.charger_power"
NoEntity == "None"

Unavailable == [kind |-> "unavailable", w |-> 0]
NumState(r) == [kind |-> "num", w |-> r]
PowerStates == {Unavailable} \cup {NumState(r) : r \in RawWatts}

\* the ways the read of the power sensor can fail: no entity id configured,
\* no state object for the entity, state "unknown", state "unavailable",
\* a state string that float() rejects
Unconfigured == [kind |-> "unconfigured", w |-> 0]
FailedReads == {Unconfigured, Unavailable,
                [kind |-> "missing", w |-> 0],
                [kind |-> "unknown", w |-> 0],
                [kind |-> "unparseable", w |-> 0]}

\* no tick has read the sensor in the last operation
NoRead == [kind |-> "none", w |-> 0]

NoneStr == [kind |-> "none", t |-> 0]
\* a stored string that datetime.fromisoformat rejects
Malformed == [kind |-> "malformed", t |-> 0]
isoformat(t) == [kind |-> "iso", t |-> t]

(* --------------------------- arithmetic ------------------------------- *)
\* Python round(): nearest integer, ties to even, of k + n/d (d > 0, n >= 0 or k = 0)
round_mixed(k, n, d) ==
  LET q == k + (n \div d)
      r == n % d
  IN  IF 2 * r < d THEN q
      ELSE IF 2 * r > d THEN q + 1
      ELSE IF q % 2 = 0 THEN q ELSE q + 1

round(n, d) == round_mixed(0, n, d)

Max(a, b) == IF a >= b THEN a ELSE b
Min(a, b) == IF a <= b THEN a ELSE b

\* (energy_added_kwh / BATTERY_CAPACITY_KWH) * 100.0, in SoC units
SocAdded(energy) == energy * (HUNDRED \div BATTERY_CAPACITY)

\* mutant: the upper clamp is missing
ClampMeasured_NoUpper(new_soc) == Max(0, new_soc)

\* min(100.0, max(0.0, new_soc))
ClampMeasured(new_soc) == Min(HUNDRED, Max(0, new_soc))

\* mutant: the upper clamp is missing
ClampFixed_NoUpper(new_soc) == new_soc

\* min(100.0, new_soc)
ClampFixed(new_soc) == Min(HUNDRED, new_soc)

\* power_watts * CHARGER_LOST_FACTOR
AdjustedW(raw) == (raw * LOST_FACTOR_NUM) \div LOST_FACTOR_DEN

\* mutant: energy is accumulated whatever its sign
AccumulateEnergy_Unguarded(total, energy_added) == total + energy_added

\* if energy_added_kwh > 0: self.total_energy_consumed_kwh += energy_added_kwh
AccumulateEnergy(total, energy_added) ==
  IF energy_added > 0 THEN total + energy_added ELSE total

\* mutant: every tick is taken to span one full tick interval
TimeDelta_PerTick(t, last_soc_update_time) == TICK_INTERVAL

\* (current_time - self._last_soc_update_time).total_seconds()
TimeDelta(t, last_soc_update_time) == t - last_soc_update_time

\* mutant: a reading equal to the threshold counts as charging
IsDrawingSignificantPower_Inclusive(actual_power_w, minw) == actual_power_w >= minw

\* mutant: a reading above half the threshold counts as charging
IsDrawingSignificantPower_HalfThreshold(actual_power_w, minw) == 2 * actual_power_w > minw

\* actual_power_watts > self.min_charging_power_w
IsDrawingSignificantPower(actual_power_w, minw) == actual_power_w > minw

(* ------------------------ observers / notify --------------------------- *)
\* what an observer does when it is called
ObserverKind(o) == IF o = "bad" THEN "raise" ELSE "ok"

NoCalls == [o \in Observers |-> 0]

InList(cbs, o) == \E i \in 1..Len(cbs) : cbs[i] = o

\* remove_update_callback: the list without callback_func
RemoveFrom(cbs, o) == SelectSeq(cbs, LAMBDA x : x # o)

\* the callback list after _notify_updates has called observer o
CallObserver(o, cbs) ==
  IF o = "leaver" THEN RemoveFrom(cbs, "leaver")
  ELSE IF o = "remover" THEN RemoveFrom(cbs, "ok")
  ELSE cbs

\* the for-loop of _notify_updates from position i of the list iterator on,
\* over the list as the observers called so far have left it; the measured
\* revision catches an observer's exception, the fixed one lets it escape
RECURSIVE NotifyFrom(_, _, _, _)
NotifyFrom(v, cbs, i, cnt) ==
  IF i > Len(cbs) THEN [calls |-> cnt, raised |-> FALSE, cbs |-> cbs]
  ELSE LET o    == cbs[i]
           cnt1 == [cnt EXCEPT ![o] = @ + 1]
           cbs1 == CallObserver(o, cbs)
       IN  IF ObserverKind(o) = "raise" /\ v = "fixed"
           THEN [calls |-> cnt1, raised |-> TRUE, cbs |-> cbs1]
           ELSE NotifyFrom(v, cbs1, i + 1, cnt1)

_notify_updates(v, cbs) == NotifyFrom(v, cbs, 1, NoCalls)

(* ------------------------- derived durations -------------------------- *)
\* mutant: without a session the durations keep their last values
IdleDurations_Stale(s) == s

\* _update_duration_metrics when no session is active (the same statements
\* in both revisions)
IdleDurations(s) ==
  [s EXCEPT !.elapsed_charging_seconds = 0,
            !.duration_to_80_pct_seconds =
                IF s.current_soc >= SOC_THRESHOLD_PHASE2 THEN 0 ELSE None,
            !.duration_to_100_pct_seconds =
                IF s.current_soc >= HUNDRED THEN 0 ELSE None]

\* mutant: the last known power is floored to the minimum estimation power
estimation_power_phase1_kw_Floored(last_known_power_w) ==
  Max(last_known_power_w, ESTIMATION_POWER_FLOOR_W)

\* estimation_power_phase1_kw (in W) of the measured revision: the last
\* known power when it exceeds 0.2 kW, otherwise the default 0.9 kW
estimation_power_phase1_kw(last_known_power_w) ==
  IF last_known_power_w > ESTIMATION_POWER_FLOOR_W
  THEN Max(last_known_power_w, ESTIMATION_POWER_FLOOR_W)
  ELSE ESTIMATION_POWER_DEFAULT_W

(* --------------------- measured-power revision ------------------------- *)
\* mutant: an unavailable sensor also resets _last_known_power_kw
current_power_kw_ForgetsLastKnown(s, ps) ==
  IF ps.kind = "num"
  THEN [value |-> AdjustedW(ps.w), s |-> [s EXCEPT !.last_known_power_w = AdjustedW(ps.w)]]
  ELSE [value |-> 0, s |-> [s EXCEPT !.last_known_power_w = 0]]

\* mutant: a failed read returns the last known power
current_power_kw_ReturnsLastKnown(s, ps) ==
  IF ps.kind = "num"
  THEN [value |-> AdjustedW(ps.w), s |-> [s EXCEPT !.last_known_power_w = AdjustedW(ps.w)]]
  ELSE [value |-> s.last_known_power_w, s |-> s]

\* property current_power_kw: the adjusted reading in W and the value of
\* _last_known_power_kw after the read (only a parseable state stores it)
current_power_kw(s, ps) ==
  IF ps.kind = "num"
  THEN [value |-> AdjustedW(ps.w), s |-> [s EXCEPT !.last_known_power_w = AdjustedW(ps.w)]]
  ELSE [value |-> 0, s |-> s]

\* mutant: the final update of a session clears the session start time
UpdateSocMeasured_ClearsStart(s, minw, final_update, has_override, override_w, t) ==
  IF ~s.is_charging /\ ~final_update THEN s
  ELSE IF s.current_soc >= HUNDRED /\ s.is_charging THEN s
  ELSE IF s.last_soc_update_time = None /\ ~(final_update /\ s.charge_start_time # None) THEN s
  ELSE
    LET s1 == IF s.last_soc_update_time = None
              THEN [s EXCEPT !.last_soc_update_time = s.charge_start_time]
              ELSE s
        time_delta == TimeDelta(t, s1.last_soc_update_time)
        active_charge_power_w == IF final_update /\ has_override
                                 THEN override_w ELSE s1.last_known_power_w
        energy_added == active_charge_power_w * time_delta
        soc_added == SocAdded(energy_added)
    IN  IF time_delta <= EPSILON_MEASURED /\ ~final_update THEN s1
        ELSE IF 2 * active_charge_power_w < minw /\ ~final_update
             THEN [s1 EXCEPT !.last_soc_update_time = t]
        ELSE [s1 EXCEPT
                !.total_energy = AccumulateEnergy(@, energy_added),
                !.current_soc = IF soc_added # 0 THEN ClampMeasured(@ + soc_added) ELSE @,
                !.last_soc_update_time = t,
                !.charge_start_time = IF final_update THEN None ELSE @]

\* mutant: the low-power return leaves the watermark where it was
UpdateSocMeasured_LowPowerKeepsWatermark(s, minw, final_update, has_override, override_w, t) ==
  IF ~s.is_charging /\ ~final_update THEN s
  ELSE IF s.current_soc >= HUNDRED /\ s.is_charging THEN s
  ELSE IF s.last_soc_update_time = None /\ ~(final_update /\ s.charge_start_time # None) THEN s
  ELSE
    LET s1 == IF s.last_soc_update_time = None
              THEN [s EXCEPT !.last_soc_update_time = s.charge_start_time]
              ELSE s
        time_delta == TimeDelta(t, s1.last_soc_update_time)
        active_charge_power_w == IF final_update /\ has_override
                                 THEN override_w ELSE s1.last_known_power_w
        energy_added == active_charge_power_w * time_delta
        soc_added == SocAdded(energy_added)
    IN  IF time_delta <= EPSILON_MEASURED /\ ~final_update THEN s1
        ELSE IF 2 * active_charge_power_w < minw /\ ~final_update
             THEN s1
        ELSE [s1 EXCEPT
                !.total_energy = AccumulateEnergy(@, energy_added),
                !.current_soc = IF soc_added # 0 THEN ClampMeasured(@ + soc_added) ELSE @,
                !.last_soc_update_time = t]

\* _update_soc_calculation_logic(final_update, charge_power_override_kw)
UpdateSocMeasured(s, minw, final_update, has_override, override_w, t) ==
  IF ~s.is_charging /\ ~final_update THEN s
  ELSE IF s.current_soc >= HUNDRED /\ s.is_charging THEN s
  ELSE IF s.last_soc_update_time = None /\ ~(final_update /\ s.charge_start_time # None) THEN s
  ELSE
    LET s1 == IF s.last_soc_update_time = None
              THEN [s EXCEPT !.last_soc_update_time = s.charge_start_time]
              ELSE s
        time_delta == TimeDelta(t, s1.last_soc_update_time)
        active_charge_power_w == IF final_update /\ has_override
                                 THEN override_w ELSE s1.last_known_power_w
        energy_added == active_charge_power_w * time_delta
        soc_added == SocAdded(energy_added)
    IN  IF time_delta <= EPSILON_MEASURED /\ ~final_update THEN s1
        ELSE IF 2 * active_charge_power_w < minw /\ ~final_update
             THEN [s1 EXCEPT !.last_soc_update_time = t]
        ELSE [s1 EXCEPT
                !.total_energy = AccumulateEnergy(@, energy_added),
                !.current_soc = IF soc_added # 0 THEN ClampMeasured(@ + soc_added) ELSE @,
                !.last_soc_update_time = t]

\* _update_duration_metrics; err is TRUE when the routine raises
\* UnboundLocalError: estimation_power_phase1_kw (line 221) is bound only
\* on the branch current_soc < SOC_THRESHOLD_PHASE2 and read at line 240
UpdateDurationsMeasured(s, t) ==
  IF ~s.is_charging \/ s.charge_start_time = None
  THEN [s |-> IdleDurations(s), err |-> FALSE]
  ELSE
    LET elapsed == round(t - s.charge_start_time, TimeUnitsPerSecond)
        estimation_power_phase1_w == estimation_power_phase1_kw(s.last_known_power_w)
        soc_needed_to_80 == SOC_THRESHOLD_PHASE2 - s.current_soc
        d80 == IF s.current_soc >= SOC_THRESHOLD_PHASE2 THEN 0
               ELSE round(soc_needed_to_80, estimation_power_phase1_w * TimeUnitsPerSecond)
        s80 == [s EXCEPT !.elapsed_charging_seconds = elapsed,
                         !.duration_to_80_pct_seconds = d80]
    IN  IF s.current_soc >= HUNDRED
        THEN [s |-> [s80 EXCEPT !.duration_to_100_pct_seconds = 0], err |-> FALSE]
        ELSE IF s.current_soc >= SOC_THRESHOLD_PHASE2
        THEN [s |-> s80, err |-> TRUE]
        ELSE [s |-> [s80 EXCEPT !.duration_to_100_pct_seconds =
                       round(soc_needed_to_80, estimation_power_phase1_w * TimeUnitsPerSecond)],
              err |-> FALSE]

\* mutant: the phase-1 power is used whatever current_soc is
UpdateSocFixed_Phase1Only(s, final_update, t) ==
  IF (~s.is_charging /\ ~final_update) \/ s.current_soc >= HUNDRED THEN s
  ELSE IF s.last_soc_update_time = None /\ s.charge_start_time = None
       THEN [s EXCEPT !.last_soc_update_time = t]
  ELSE
    LET s1 == IF s.last_soc_update_time = None
              THEN [s EXCEPT !.last_soc_update_time = s.charge_start_time]
              ELSE s
        time_delta == TimeDelta(t, s1.last_soc_update_time)
        soc_added == SocAdded(CHARGER_POWER_PHASE1_W * time_delta)
    IN  IF time_delta <= EPSILON_FIXED THEN s1
        ELSE [s1 EXCEPT
                !.current_soc = IF soc_added > 0 THEN ClampFixed(@ + soc_added) ELSE @,
                !.last_soc_update_time = t,
                !.persisted_last_soc_update_time_str = isoformat(t)]

(* ----------------------- fixed-profile revision ------------------------ *)
\* _update_soc_calculation_logic(final_update)
UpdateSocFixed(s, final_update, t) ==
  IF (~s.is_charging /\ ~final_update) \/ s.current_soc >= HUNDRED THEN s
  ELSE IF s.last_soc_update_time = None /\ s.charge_start_time = None
       THEN [s EXCEPT !.last_soc_update_time = t]
  ELSE
    LET s1 == IF s.last_soc_update_time = None
              THEN [s EXCEPT !.last_soc_update_time = s.charge_start_time]
              ELSE s
        time_delta == TimeDelta(t, s1.last_soc_update_time)
        charge_power_w == IF s1.current_soc < SOC_THRESHOLD_PHASE2
                          THEN CHARGER_POWER_PHASE1_W ELSE CHARGER_POWER_PHASE2_W
        energy_added == charge_power_w * time_delta
        soc_added == SocAdded(energy_added)
    IN  IF time_delta <= EPSILON_FIXED THEN s1
        ELSE [s1 EXCEPT
                !.current_soc = IF soc_added > 0 THEN ClampFixed(@ + soc_added) ELSE @,
                !.last_soc_update_time = t,
                !.persisted_last_soc_update_time_str = isoformat(t)]

\* _update_duration_metrics
UpdateDurationsFixed(s, t) ==
  IF ~s.is_charging
  THEN IdleDurations(s)
  ELSE
    LET elapsed == IF s.charge_start_time # None
                   THEN round(t - s.charge_start_time, TimeUnitsPerSecond) ELSE 0
        d80 == IF s.current_soc >= SOC_THRESHOLD_PHASE2 THEN 0
               ELSE round(SOC_THRESHOLD_PHASE2 - s.current_soc,
                          CHARGER_POWER_PHASE1_W * TimeUnitsPerSecond)
        \* total_duration_hours * 3600 = n1/(P1*10) + n2/(P2*10) seconds,
        \* split into whole seconds and one exact fraction before rounding
        n1 == IF s.current_soc < SOC_THRESHOLD_PHASE2
              THEN SOC_THRESHOLD_PHASE2 - s.current_soc ELSE 0
        temp_current_soc == Max(s.current_soc, SOC_THRESHOLD_PHASE2)
        n2 == HUNDRED - temp_current_soc
        d1 == CHARGER_POWER_PHASE1_W * TimeUnitsPerSecond
        d2 == CHARGER_POWER_PHASE2_W * TimeUnitsPerSecond
        d100 == IF s.current_soc >= HUNDRED THEN 0
                ELSE round_mixed((n1 \div d1) + (n2 \div d2),
                                 (n1 % d1) * CHARGER_POWER_PHASE2_W
                                   + (n2 % d2) * CHARGER_POWER_PHASE1_W,
                                 d1 * CHARGER_POWER_PHASE2_W)
    IN  [s EXCEPT !.elapsed_charging_seconds = elapsed,
                  !.duration_to_80_pct_seconds = d80,
                  !.duration_to_100_pct_seconds = d100]

(* ------------------------------ state ---------------------------------- *)
\* BMWCE02ChargeController.__init__ (the persisted_* fields exist in the
\* fixed revision, last_known_power_w and total_energy in the measured one)
\* listeners is the length of self._listeners (the unsubscribe functions
\* kept); timers is the number of interval registrations of this
\* controller's tick that are active at the host
NewController ==
  [current_soc |-> DEFAULT_SOC,
   is_charging |-> FALSE,
   soc_at_charge_start |-> 0,
   charge_start_time |-> None,
   last_soc_update_time |-> None,
   last_known_power_w |-> 0,
   total_energy |-> 0,
   elapsed_charging_seconds |-> 0,
   duration_to_80_pct_seconds |-> None,
   duration_to_100_pct_seconds |-> None,
   update_callbacks |-> << >>,
   persisted_is_charging |-> FALSE,
   persisted_soc_at_charge_start |-> 0,
   persisted_charge_start_time_str |-> NoneStr,
   persisted_last_soc_update_time_str |-> NoneStr,
   listeners |-> 0,
   timers |-> 0]

Init ==
  /\ variant \in Variants
  /\ min_charging_power_w \in (IF variant = "measured" THEN MinPowerChoices
                                ELSE {DEFAULT_MIN_CHARGING_POWER_W})
  /\ power_sensor_entity_id = POWER_SENSOR
  /\ now = 0
  /\ ops = 0
  /\ power_state = NoRead
  /\ c = NewController
  /\ last_op = "init"
  /\ prev_op = "none"
  /\ delivered = NoCalls
  /\ raised = FALSE
  /\ consecutive_ticks = 0
  /\ callback_func = NoCallback

config == <<variant, min_charging_power_w, power_sensor_entity_id>>

(* ------------------------- controller operations ----------------------- *)
TickOps == {"tick_start", "tick_stop", "tick_active", "tick_idle"}

\* bookkeeping of every controller operation: the host clock has moved on
\* by d since the previous operation; the history records the operation's
\* name and outcome, the sensor state a tick read, the observer calls made,
\* whether an exception escaped, and whether the operation is a tick
\* repeating the previous tick at the same clock and sensor state; cb is
\* the function passed to register/remove_update_callback
Record(op, d, ps, calls, exc, cb) ==
  /\ ops < MaxOps
  /\ ops' = ops + 1
  /\ now' = now + d
  /\ power_state' = ps
  /\ last_op' = op
  /\ prev_op' = IF d = 0 THEN last_op ELSE "none"
  /\ delivered' = calls
  /\ raised' = exc
  /\ consecutive_ticks' =
       IF op \in TickOps
       THEN (IF last_op \in TickOps /\ d = 0 /\ ps = power_state THEN 2 ELSE 1)
       ELSE 0
  /\ callback_func' = cb

Done(op, d, ps, calls, exc) == Record(op, d, ps, calls, exc, NoCallback)

\* an operation named op returned r: the controller is as r.s, r.calls and
\* r.raised go to the history
Returned(r, op, d, look) ==
  /\ c' = r.s
  /\ Done(op, d, look, r.calls, r.raised)

\* self.hass.states.get(self.power_sensor_entity_id) while the sensor shows
\* ps; without an entity id the property returns before the lookup
SensorLookup(ps) == IF power_sensor_entity_id = NoEntity THEN Unconfigured ELSE ps

\* measured revision: the body of _async_periodic_update run at time t on
\* controller s while the sensor lookup gives look; raised is TRUE when
\* the UnboundLocalError of _update_duration_metrics escapes (nothing is
\* notified then)
_async_periodic_update(s, minw, look, t) ==
  LET r  == current_power_kw(s, look)
      s0 == r.s
      is_drawing_significant_power == IsDrawingSignificantPower(r.value, minw)
      starts == is_drawing_significant_power /\ ~s0.is_charging
      stops  == ~is_drawing_significant_power /\ s0.is_charging
      s1 == IF starts
            THEN [s0 EXCEPT !.is_charging = TRUE,
                            !.soc_at_charge_start = s0.current_soc,
                            !.charge_start_time = t,
                            !.last_soc_update_time = t]
            ELSE IF stops
            THEN UpdateSocMeasured([s0 EXCEPT !.is_charging = FALSE],
                                   minw, TRUE, TRUE, s0.last_known_power_w, t)
            ELSE s0
      s2 == IF s1.is_charging
            THEN UpdateSocMeasured(s1, minw, FALSE, FALSE, 0, t)
            ELSE s1
      u  == UpdateDurationsMeasured(s2, t)
      n  == _notify_updates("measured", u.s.update_callbacks)
      op == IF starts THEN "tick_start" ELSE IF stops THEN "tick_stop"
            ELSE IF s0.is_charging THEN "tick_active" ELSE "tick_idle"
  IN  IF u.err
      THEN [s |-> u.s, calls |-> NoCalls, raised |-> TRUE, op |-> op]
      ELSE [s |-> [u.s EXCEPT !.update_callbacks = n.cbs],
            calls |-> n.calls, raised |-> n.raised, op |-> op]

\* measured revision: the timer runs _async_periodic_update, d after the
\* previous operation while the power sensor shows ps
TickMeasured(d, ps) ==
  /\ variant = "measured"
  /\ LET look == SensorLookup(ps)
         r    == _async_periodic_update(c, min_charging_power_w, look, now + d)
     IN  /\ c' = r.s
         /\ Done(r.op, d, look, r.calls, r.raised)
  /\ UNCHANGED config

\* mutant: a tick that finds the battery full ends the session
TickFixed_StopsWhenFull(d) ==
  /\ variant = "fixed"
  /\ UNCHANGED config
  /\ LET t == now + d
     IN  IF ~c.is_charging \/ c.charge_start_time = None
         THEN /\ c' = c
              /\ Done("tick_idle", d, NoRead, NoCalls, FALSE)
         ELSE LET s1 == UpdateSocFixed(c, FALSE, t)
                  s2 == UpdateDurationsFixed(
                          [s1 EXCEPT !.is_charging = s1.current_soc < HUNDRED], t)
                  n  == _notify_updates(variant, s2.update_callbacks)
              IN  /\ c' = [s2 EXCEPT !.update_callbacks = n.cbs]
                  /\ Done("tick_active", d, NoRead, n.calls, n.raised)

\* fixed revision: _async_periodic_update
TickFixed(d) ==
  /\ variant = "fixed"
  /\ UNCHANGED config
  /\ LET t == now + d
     IN  IF ~c.is_charging \/ c.charge_start_time = None
         THEN /\ c' = c
              /\ Done("tick_idle", d, NoRead, NoCalls, FALSE)
         ELSE LET s1 == UpdateSocFixed(c, FALSE, t)
                  s2 == UpdateDurationsFixed(s1, t)
                  n  == _notify_updates(variant, s2.update_callbacks)
              IN  /\ c' = [s2 EXCEPT !.update_callbacks = n.cbs]
                  /\ Done("tick_active", d, NoRead, n.calls, n.raised)

\* mutant: a manual start leaves the integration watermark where it was
StartSession_KeepsWatermark(d) ==
  /\ variant = "fixed"
  /\ LET t == now + d
     IN  IF c.is_charging
         THEN /\ c' = c
              /\ Done("start_noop", d, NoRead, NoCalls, FALSE)
         ELSE LET s1 == [c EXCEPT !.is_charging = TRUE,
                                  !.soc_at_charge_start = c.current_soc,
                                  !.charge_start_time = t,
                                  !.persisted_is_charging = TRUE,
                                  !.persisted_soc_at_charge_start = c.current_soc,
                                  !.persisted_charge_start_time_str = isoformat(t)]
                  s2 == UpdateDurationsFixed(s1, t)
                  n  == _notify_updates(variant, s2.update_callbacks)
              IN  /\ c' = [s2 EXCEPT !.update_callbacks = n.cbs]
                  /\ Done("start", d, NoRead, n.calls, n.raised)
  /\ UNCHANGED config

\* fixed revision: the statements of start_charging_manual at time t when
\* no session is active
start_charging_manual(s, t) ==
  LET s1 == [s EXCEPT !.is_charging = TRUE,
                      !.soc_at_charge_start = s.current_soc,
                      !.charge_start_time = t,
                      !.last_soc_update_time = t,
                      !.persisted_is_charging = TRUE,
                      !.persisted_soc_at_charge_start = s.current_soc,
                      !.persisted_charge_start_time_str = isoformat(t),
                      !.persisted_last_soc_update_time_str = isoformat(t)]
      s2 == UpdateDurationsFixed(s1, t)
      n  == _notify_updates("fixed", s2.update_callbacks)
  IN  [s |-> [s2 EXCEPT !.update_callbacks = n.cbs],
       calls |-> n.calls, raised |-> n.raised]

\* fixed revision: start_charging_manual
StartSession(d) ==
  /\ variant = "fixed"
  /\ IF c.is_charging
     THEN /\ c' = c
          /\ Done("start_noop", d, NoRead, NoCalls, FALSE)
     ELSE Returned(start_charging_manual(c, now + d), "start", d, NoRead)
  /\ UNCHANGED config

\* fixed revision: stop_charging_manual
StopSession(d) ==
  /\ variant = "fixed"
  /\ LET t == now + d
     IN  IF ~c.is_charging
         THEN /\ c' = c
              /\ Done("stop_noop", d, NoRead, NoCalls, FALSE)
         ELSE LET s1 == UpdateSocFixed([c EXCEPT !.is_charging = FALSE,
                                                 !.persisted_is_charging = FALSE],
                                       TRUE, t)
                  s2 == UpdateDurationsFixed(s1, t)
                  n  == _notify_updates(variant, s2.update_callbacks)
              IN  /\ c' = [s2 EXCEPT !.update_callbacks = n.cbs]
                  /\ Done("stop", d, NoRead, n.calls, n.raised)
  /\ UNCHANGED config

\* mutant: the watermark is re-based to the session start
SetSocMeasured_RebaseToStart(s, soc_value, t) ==
  [s EXCEPT !.current_soc = soc_value,
            !.last_soc_update_time = IF s.is_charging THEN s.charge_start_time ELSE @]

\* mutant: the watermark is not re-based
SetSocMeasured_NoRebase(s, soc_value, t) == [s EXCEPT !.current_soc = soc_value]

\* mutant: the session start is re-based with the watermark
SetSocMeasured_ResetsStart(s, soc_value, t) ==
  [s EXCEPT !.current_soc = soc_value,
            !.charge_start_time = IF s.is_charging THEN t ELSE @,
            !.last_soc_update_time = IF s.is_charging THEN t ELSE @]

\* async_set_current_soc(soc_value), measured revision: the assignments
SetSocMeasured(s, soc_value, t) ==
  [s EXCEPT !.current_soc = soc_value,
            !.last_soc_update_time = IF s.is_charging THEN t ELSE @]

\* mutant: the session start time is left as it was
SetSocFixed_KeepsStart(s, soc_value, t) ==
  IF s.is_charging
  THEN [s EXCEPT !.current_soc = soc_value,
                 !.soc_at_charge_start = soc_value,
                 !.last_soc_update_time = t,
                 !.persisted_soc_at_charge_start = soc_value,
                 !.persisted_last_soc_update_time_str = isoformat(t)]
  ELSE [s EXCEPT !.current_soc = soc_value]

\* async_set_current_soc(soc_value), fixed revision: the assignments
SetSocFixed(s, soc_value, t) ==
  IF s.is_charging
  THEN [s EXCEPT !.current_soc = soc_value,
                 !.soc_at_charge_start = soc_value,
                 !.charge_start_time = t,
                 !.last_soc_update_time = t,
                 !.persisted_soc_at_charge_start = soc_value,
                 !.persisted_charge_start_time_str = isoformat(t),
                 !.persisted_last_soc_update_time_str = isoformat(t)]
  ELSE [s EXCEPT !.current_soc = soc_value]

\* mutant: the upper bound is not checked
ValidSoc_NoUpperBound(soc_value) == 0 <= soc_value

\* the range check of async_set_current_soc
ValidSoc(soc_value) == 0 <= soc_value /\ soc_value <= HUNDRED

\* history label of a set_soc call: whether the requested value lies in [0, 100]
SetSocOp(soc_value) ==
  IF soc_value < 0 \/ soc_value > HUNDRED THEN "set_soc_invalid" ELSE "set_soc"

\* async_set_current_soc, both revisions
SetSoc(d, soc_value) ==
  /\ LET t == now + d
         op == SetSocOp(soc_value)
     IN  IF ~ValidSoc(soc_value)
         THEN /\ c' = c
              /\ Done(op, d, NoRead, NoCalls, FALSE)
         ELSE IF variant = "measured"
         THEN LET u == UpdateDurationsMeasured(SetSocMeasured(c, soc_value, t), t)
                  n == _notify_updates(variant, u.s.update_callbacks)
              IN  IF u.err
                  THEN /\ c' = u.s
                       /\ Done(op, d, NoRead, NoCalls, TRUE)
                  ELSE /\ c' = [u.s EXCEPT !.update_callbacks = n.cbs]
                       /\ Done(op, d, NoRead, n.calls, n.raised)
         ELSE LET s2 == UpdateDurationsFixed(SetSocFixed(c, soc_value, t), t)
                  n  == _notify_updates(variant, s2.update_callbacks)
              IN  /\ c' = [s2 EXCEPT !.update_callbacks = n.cbs]
                  /\ Done(op, d, NoRead, n.calls, n.raised)
  /\ UNCHANGED config

(* ------------------------ timer registrations ------------------------- *)
\* mutant: the list is cleared without calling the unsubscribe functions
async_unsubscribe_listeners_ClearOnly(s) == [s EXCEPT !.listeners = 0]

\* async_unsubscribe_listeners: every unsubscribe function kept is called,
\* which cancels its registration, and the list is cleared
async_unsubscribe_listeners(s) ==
  [s EXCEPT !.timers = @ - s.listeners, !.listeners = 0]

\* async_track_time_interval(...) appended to self._listeners
TrackTimeInterval(s) == [s EXCEPT !.listeners = @ + 1, !.timers = @ + 1]

\* fixed revision, async_initialize_listeners at time t: the session is
\* taken from the persisted_* fields, a missing start string gives t, a
\* missing watermark string gives the start time, and a string that
\* fromisoformat rejects resets both to t (except ValueError, TypeError)
InitializeListenersFixed(s, t) ==
  LET s0 == async_unsubscribe_listeners(s)
      start_str == s0.persisted_charge_start_time_str
      wm_str    == s0.persisted_last_soc_update_time_str
      parse_fails == \/ (start_str # NoneStr /\ start_str.kind # "iso")
                     \/ (wm_str # NoneStr /\ wm_str.kind # "iso")
      start == IF start_str # NoneStr THEN start_str.t ELSE t
      wm    == IF wm_str # NoneStr THEN wm_str.t ELSE start
      s1 == IF ~s0.persisted_is_charging
            THEN [s0 EXCEPT !.is_charging = FALSE]
            ELSE IF parse_fails
            THEN [s0 EXCEPT !.is_charging = TRUE,
                            !.soc_at_charge_start = s0.persisted_soc_at_charge_start,
                            !.charge_start_time = t,
                            !.last_soc_update_time = t]
            ELSE [s0 EXCEPT !.is_charging = TRUE,
                            !.soc_at_charge_start = s0.persisted_soc_at_charge_start,
                            !.charge_start_time = start,
                            !.last_soc_update_time = wm]
      s2 == TrackTimeInterval(UpdateDurationsFixed(s1, t))
      n  == _notify_updates("fixed", s2.update_callbacks)
  IN  [s |-> [s2 EXCEPT !.update_callbacks = n.cbs],
       calls |-> n.calls, raised |-> n.raised]

\* measured revision, the statements of async_initialize_listeners after
\* the initial update returned r: the registration and a second
\* notification, unless the update raised
RegisterAfterUpdate(r) ==
  LET s1 == TrackTimeInterval(r.s)
      n  == _notify_updates("measured", s1.update_callbacks)
  IN  IF r.raised
      THEN [s |-> r.s, calls |-> r.calls, raised |-> TRUE]
      ELSE [s |-> [s1 EXCEPT !.update_callbacks = n.cbs],
            calls |-> [o \in Observers |-> r.calls[o] + n.calls[o]],
            raised |-> FALSE]

\* measured revision, async_initialize_listeners at time t: one run of
\* _async_periodic_update, then the registration and a second
\* notification; an exception of the update escapes before the registration
InitializeListenersMeasured(s, minw, look, t) ==
  RegisterAfterUpdate(
    _async_periodic_update(async_unsubscribe_listeners(s), minw, look, t))

\* controller.async_initialize_listeners(), d after the previous operation
\* while the power sensor shows ps
InitializeListeners(d, ps) ==
  /\ IF variant = "measured"
     THEN Returned(InitializeListenersMeasured(c, min_charging_power_w,
                                               SensorLookup(ps), now + d),
                   "initialize", d, SensorLookup(ps))
     ELSE Returned(InitializeListenersFixed(c, now + d), "initialize", d, NoRead)
  /\ UNCHANGED config

\* controller.async_unsubscribe_listeners(), as the entry's unload does
UnsubscribeListeners ==
  /\ c' = async_unsubscribe_listeners(c)
  /\ Done("unsubscribe", 0, NoRead, NoCalls, FALSE)
  /\ UNCHANGED config

\* register_update_callback(callback_func)
Register(o) ==
  /\ c' = [c EXCEPT !.update_callbacks =
             IF InList(@, o) THEN @ ELSE Append(@, o)]
  /\ Record("register", 0, NoRead, [NoCalls EXCEPT ![o] = 1],
            ObserverKind(o) = "raise", o)
  /\ UNCHANGED config

\* remove_update_callback(callback_func)
Remove(o) ==
  /\ c' = [c EXCEPT !.update_callbacks = RemoveFrom(@, o)]
  /\ Record("remove", 0, NoRead, NoCalls, FALSE, o)
  /\ UNCHANGED config

\* an entity reads controller.current_power_kw to render its attributes or
\* icon (binary_sensor.py extra_state_attributes, number.py icon) while the
\* power sensor shows ps
DisplayRead(ps) ==
  /\ variant = "measured"
  /\ c' = current_power_kw(c, SensorLookup(ps)).s
  /\ Done("display_read", 0, NoRead, NoCalls, FALSE)
  /\ UNCHANGED config

Next ==
  \/ \E d \in DtChoices(variant), ps \in PowerStates : TickMeasured(d, ps)
  \/ \E d \in DtChoices(variant) : TickFixed(d)
  \/ \E d \in DtChoices(variant) : StartSession(d)
  \/ \E d \in DtChoices(variant) : StopSession(d)
  \/ \E d \in DtChoices(variant), x \in SocInputs : SetSoc(d, x)
  \/ \E o \in CoreObservers : Register(o)
  \/ \E ps \in PowerStates : DisplayRead(ps)

Spec == Init /\ [][Next]_vars

(* Observer management: any observer function may be registered and        *)
(* removed, between operations that notify in each revision.               *)
NextObservers ==
  \/ \E o \in Observers : Register(o)
  \/ \E o \in Observers : Remove(o)
  \/ SetSoc(0, 0)
  \/ TickMeasured(TICK_INTERVAL, NumState(275))
  \/ StartSession(0)

SpecObservers == Init /\ [][NextObservers]_vars

(* Reading the power sensor: the measured revision with or without a       *)
(* configured entity, the sensor showing a number or failing in any way.   *)
SensorStates == (FailedReads \ {Unconfigured}) \cup {NumState(275)}

InitSensor ==
  /\ variant = "measured"
  /\ min_charging_power_w \in MinPowerChoices
  /\ power_sensor_entity_id \in {POWER_SENSOR, NoEntity}
  /\ now = 0
  /\ ops = 0
  /\ power_state = NoRead
  /\ c = NewController
  /\ last_op = "init"
  /\ prev_op = "none"
  /\ delivered = NoCalls
  /\ raised = FALSE
  /\ consecutive_ticks = 0
  /\ callback_func = NoCallback

NextSensor ==
  \/ \E d \in {0, TICK_INTERVAL}, ps \in SensorStates : TickMeasured(d, ps)
  \/ SetSoc(0, 999 * (PCT \div 10))
  \/ Register("ok")

SpecSensor == InitSensor /\ [][NextSensor]_vars

(* Integration: sessions that run undisturbed. The SoC is set only while   *)
(* idle (just below and above the phase threshold), the power sensor shows *)
(* a constant charging power, and ticks arrive on time, twice at the same  *)
(* instant, within epsilon of the previous one, or late after missed ones. *)
LATE_TICK == 3 * TICK_INTERVAL
IntegrationDts(v) == DtChoices(v) \cup {LATE_TICK}
IntegrationSocs == {799 * (PCT \div 10), 85 * PCT}

NextIntegration ==
  \/ \E x \in IntegrationSocs : ~c.is_charging /\ SetSoc(0, x)
  \/ \E d \in IntegrationDts(variant) : TickMeasured(d, NumState(275))
  \/ \E d \in IntegrationDts(variant) : TickFixed(d)
  \/ \E d \in IntegrationDts(variant) : StartSession(d)
  \/ \E d \in IntegrationDts(variant) : StopSession(d)

SpecIntegration == Init /\ [][NextIntegration]_vars

(* ------------------------ restore at startup -------------------------- *)
\* round(x, 1) of a SoC and round(x, 3) of an energy in kWh
round_1(soc) == round(soc, PCT \div 10) * (PCT \div 10)
round_3(energy) == round(energy, 36000) * 36000

\* the store has nothing for the entity
NoSensorData == [native_value |-> None]

\* what the store holds for the SoC sensor of the fixed revision: the
\* native value and the persisted_* attributes the entity last wrote. The
\* entity writes them from the controller whenever the controller notifies
\* it, which every operation that changes them does.
LastSensorDataFixed(s) ==
  [native_value |-> round_1(s.current_soc),
   persisted_is_charging_flag |-> s.persisted_is_charging,
   persisted_soc_at_charge_start_val |-> s.persisted_soc_at_charge_start,
   persisted_charge_start_time_val |-> s.persisted_charge_start_time_str,
   persisted_last_soc_update_time_val |-> s.persisted_last_soc_update_time_str]

\* what the store holds for the energy sensor of the measured revision
LastSensorDataMeasured(s) == [native_value |-> round_3(s.total_energy)]

\* what may have happened to the stored timestamps of the fixed revision
Damages == {"none", "start_missing", "watermark_missing",
            "start_malformed", "watermark_malformed"}

Damaged(data, damage) ==
  IF damage = "start_missing"
  THEN [data EXCEPT !.persisted_charge_start_time_val = NoneStr]
  ELSE IF damage = "watermark_missing"
  THEN [data EXCEPT !.persisted_last_soc_update_time_val = NoneStr]
  ELSE IF damage = "start_malformed"
  THEN [data EXCEPT !.persisted_charge_start_time_val = Malformed]
  ELSE IF damage = "watermark_malformed"
  THEN [data EXCEPT !.persisted_last_soc_update_time_val = Malformed]
  ELSE data

\* register_update_callback of an entity's callback while it is added
RegisterEntity(s) ==
  [s EXCEPT !.update_callbacks = IF InList(@, "ok") THEN @ ELSE Append(@, "ok")]

\* fixed revision, BMWCE02SoCSensor.async_added_to_hass
SoCSensor_async_added_to_hass(s, last_sensor_data) ==
  RegisterEntity(
    IF last_sensor_data.native_value # None
    THEN [s EXCEPT
            !.current_soc = last_sensor_data.native_value,
            !.persisted_is_charging = last_sensor_data.persisted_is_charging_flag,
            !.persisted_soc_at_charge_start =
                last_sensor_data.persisted_soc_at_charge_start_val,
            !.persisted_charge_start_time_str =
                last_sensor_data.persisted_charge_start_time_val,
            !.persisted_last_soc_update_time_str =
                last_sensor_data.persisted_last_soc_update_time_val]
    ELSE s)

\* measured revision, BMWCE02EnergySensor.async_added_to_hass
EnergySensor_async_added_to_hass(s, last_sensor_data) ==
  RegisterEntity(
    [s EXCEPT !.total_energy = IF last_sensor_data.native_value # None
                               THEN last_sensor_data.native_value ELSE 0])

\* measured revision, BMWCE02SoCNumberEntity.async_added_to_hass:
\* restored_soc is self.native_value, which the class defines as
\* round(self._controller.current_soc, 1)
SoCNumberEntity_async_added_to_hass(s) ==
  RegisterEntity([s EXCEPT !.current_soc = round_1(s.current_soc)])

\* fixed revision: register_update_callback called the SoC sensor's
\* callback once before the calls counted in r
WithRegistrationCall(r) == [r EXCEPT !.calls["ok"] = @ + 1]

\* measured revision, async_forward_entry_setups after
\* async_initialize_listeners returned r: the energy sensor and the SoC
\* number are added, each calling its callback once at registration
ForwardEntrySetupsMeasured(r, last_sensor_data) ==
  IF r.raised THEN r
  ELSE [s |-> SoCNumberEntity_async_added_to_hass(
                EnergySensor_async_added_to_hass(r.s, last_sensor_data)),
        calls |-> [r.calls EXCEPT !["ok"] = @ + 2],
        raised |-> FALSE]

\* async_setup_entry at time t. Fixed revision: a new controller, the
\* platforms (the SoC sensor restores and registers), then
\* async_initialize_listeners. Measured revision: a new controller,
\* async_initialize_listeners (with its sensor read), then the platforms
\* (the energy sensor and the SoC number restore and register).
async_setup_entry(v, minw, look, last_sensor_data, t) ==
  IF v = "fixed"
  THEN WithRegistrationCall(
         InitializeListenersFixed(
           SoCSensor_async_added_to_hass(NewController, last_sensor_data), t))
  ELSE ForwardEntrySetupsMeasured(
         InitializeListenersMeasured(NewController, minw, look, t),
         last_sensor_data)

\* the name the history gives a restart
RestartOp(damage) == IF damage = "none" THEN "restart" ELSE damage

\* the host restarts d after the previous operation: the running controller
\* is gone, the store keeps what the entities last wrote (the timestamps
\* possibly damaged), and async_setup_entry runs again
Restart(d, ps, damage) ==
  /\ LET look == IF variant = "measured" THEN SensorLookup(ps) ELSE NoRead
         data == IF variant = "measured" THEN LastSensorDataMeasured(c)
                 ELSE Damaged(LastSensorDataFixed(c), damage)
     IN  Returned(async_setup_entry(variant, min_charging_power_w, look, data, now + d),
                  RestartOp(damage), d, look)
  /\ UNCHANGED config

(* Restarts: the integration has been set up once on a host without stored *)
(* data and, in the fixed revision, a session may have been started right  *)
(* away; sessions run and the host restarts at any moment.                 *)
InitRestart ==
  /\ variant \in Variants
  /\ min_charging_power_w \in (IF variant = "measured" THEN MinPowerChoices
                                ELSE {DEFAULT_MIN_CHARGING_POWER_W})
  /\ power_sensor_entity_id = POWER_SENSOR
  /\ now = 0
  /\ ops = 0
  /\ power_state = (IF variant = "measured" THEN Unavailable ELSE NoRead)
  /\ c \in {async_setup_entry(variant, min_charging_power_w, power_state,
                              NoSensorData, 0).s}
           \cup (IF variant = "fixed"
                 THEN {start_charging_manual(
                         async_setup_entry(variant, min_charging_power_w,
                                           power_state, NoSensorData, 0).s, 0).s}
                 ELSE {})
  /\ last_op = "init"
  /\ prev_op = "none"
  /\ delivered = NoCalls
  /\ raised = FALSE
  /\ consecutive_ticks = 0
  /\ callback_func = NoCallback

RestartPowerStates == {NumState(275), Unavailable}

NextRestart ==
  \/ \E d \in {0, TICK_INTERVAL}, ps \in RestartPowerStates,
         damage \in (IF variant = "fixed" THEN Damages ELSE {"none"}) :
        Restart(d, ps, damage)
  \/ \E ps \in RestartPowerStates : TickMeasured(TICK_INTERVAL, ps)
  \/ TickFixed(TICK_INTERVAL)
  \/ StartSession(0)
  \/ StopSession(TICK_INTERVAL)
  \/ SetSoc(0, 60 * PCT)

SpecRestart == InitRestart /\ [][NextRestart]_vars

(* Listener management: the entry is set up, reloaded and unloaded any     *)
(* number of times; the host runs the tick only through an active timer    *)
(* registration.                                                           *)
NextListeners ==
  \/ \E d \in {0, TICK_INTERVAL}, ps \in {NumState(275), Unavailable} :
        InitializeListeners(d, ps)
  \/ UnsubscribeListeners
  \/ \E ps \in {NumState(275), Unavailable} :
        c.timers > 0 /\ TickMeasured(TICK_INTERVAL, ps)
  \/ c.timers > 0 /\ TickFixed(TICK_INTERVAL)
  \/ StartSession(0)
  \/ SetSoc(0, 85 * PCT)
  \/ Register("ok")

SpecListeners == Init /\ [][NextListeners]_vars

(* The integration routine of the measured revision called on its own:      *)
(* ticks and display reads bring the controller to a state, and then         *)
(* _update_soc_calculation_logic is applied to that state with either value  *)
(* of final_update, without the sensor read a tick makes before it.          *)
UpdateSocCall(d, final_update) ==
  /\ variant = "measured"
  /\ c' = UpdateSocMeasured(c, min_charging_power_w, final_update,
                            FALSE, 0, now + d)
  /\ Done(IF final_update THEN "update_soc_final" ELSE "update_soc",
          d, NoRead, NoCalls, FALSE)
  /\ UNCHANGED config

InitRoutine == Init /\ variant = "measured"

NextRoutine ==
  \/ \E d \in {0, TICK_INTERVAL} : TickMeasured(d, NumState(275))
  \/ \E w \in RawWatts : DisplayRead(NumState(w))
  \/ \E d \in DtChoices("measured"), final_update \in BOOLEAN :
        UpdateSocCall(d, final_update)

SpecRoutine == InitRoutine /\ [][NextRoutine]_vars

(* Thresholds: the measured revision configured with the smallest          *)
(* threshold the config flow accepts (NumberSelectorConfig min=0) or with   *)
(* one a reading can equal; the sensor shows any reading, zero included, or *)
(* none, and entities read the power between ticks.                          *)
ThresholdChoices == {0} \cup MinPowerChoices
ThresholdPowerStates == PowerStates \cup {NumState(0)}

InitThreshold ==
  /\ variant = "measured"
  /\ min_charging_power_w \in ThresholdChoices
  /\ power_sensor_entity_id = POWER_SENSOR
  /\ now = 0
  /\ ops = 0
  /\ power_state = NoRead
  /\ c = NewController
  /\ last_op = "init"
  /\ prev_op = "none"
  /\ delivered = NoCalls
  /\ raised = FALSE
  /\ consecutive_ticks = 0
  /\ callback_func = NoCallback

NextThreshold ==
  \/ \E d \in DtChoices("measured"), ps \in ThresholdPowerStates :
        TickMeasured(d, ps)
  \/ \E w \in RawWatts : DisplayRead(NumState(w))

SpecThreshold == InitThreshold /\ [][NextThreshold]_vars

(* Charging to full: the fixed revision with a session that was started    *)
(* right after the SoC was set, and from then on nothing but ticks, each    *)
(* more than a second after the previous one. The timer registered by       *)
(* async_track_time_interval keeps firing, so the tick is weakly fair. The  *)
(* session starts at a SoC from which MaxOps of the shortest ticks reach    *)
(* 100 at the phase-2 power.                                                 *)
SHORTEST_TICK == EPSILON_FIXED + 1
ChargingDts == {SHORTEST_TICK, TICK_INTERVAL, LATE_TICK}
ShortestTickSoc == CHARGER_POWER_PHASE2_W * SHORTEST_TICK
NearFullSocs ==
  {HUNDRED - k * ShortestTickSoc : k \in 0..MaxOps} \cup {HUNDRED - 1}

\* async_set_current_soc(soc_value) followed by start_charging_manual, both
\* at time 0 on a new controller
SessionStartedAt(soc_value) ==
  start_charging_manual(
    UpdateDurationsFixed(SetSocFixed(NewController, soc_value, 0), 0), 0).s

InitCharging ==
  /\ variant = "fixed"
  /\ min_charging_power_w = DEFAULT_MIN_CHARGING_POWER_W
  /\ power_sensor_entity_id = POWER_SENSOR
  /\ now = 0
  /\ ops = 0
  /\ power_state = NoRead
  /\ c \in {SessionStartedAt(x) : x \in NearFullSocs}
  /\ last_op = "init"
  /\ prev_op = "none"
  /\ delivered = NoCalls
  /\ raised = FALSE
  /\ consecutive_ticks = 0
  /\ callback_func = NoCallback

NextCharging == \E d \in ChargingDts : TickFixed(d)

SpecCharging == InitCharging /\ [][NextCharging]_vars /\ WF_vars(NextCharging)

(* ----------------- time-remaining sensors (measured) ------------------- *)
\* a published string is a sequence of characters
TIME_REMAINING_STATUS_REACHED == <<"A", "t", "t", "e", "i", "n", "t">>
TIME_REMAINING_STATUS_FULL == <<"P", "l", "e", "i", "n", "e">>
TIME_REMAINING_STATUS_UNAVAILABLE ==
  <<"I", "n", "d", "i", "s", "p", "o", "n", "i", "b", "l", "e">>

DigitChars == <<"0", "1", "2", "3", "4", "5", "6", "7", "8", "9">>

\* str(n) of a natural number
RECURSIVE decimal(_)
decimal(n) ==
  IF n < 10 THEN <<DigitChars[n + 1]>>
  ELSE decimal(n \div 10) \o <<DigitChars[(n % 10) + 1]>>

\* f"{n:02d}" of a natural number
format_02d(n) == IF n < 10 THEN <<"0">> \o decimal(n) ELSE decimal(n)

\* mutant of format_hh_mm: the minutes are the seconds within the minute
format_hh_mm_SecondsAsMinutes(duration_seconds) ==
  format_02d(duration_seconds \div SECONDS_PER_HOUR)
    \o <<":">> \o format_02d(duration_seconds % 60)

\* hours = duration_seconds // 3600; minutes = (duration_seconds % 3600) // 60;
\* f"{hours:02d}:{minutes:02d}"
format_hh_mm(duration_seconds) ==
  format_02d(duration_seconds \div SECONDS_PER_HOUR)
    \o <<":">> \o format_02d((duration_seconds % SECONDS_PER_HOUR) \div 60)

\* BMWCE02TimeTo80PctSensor.native_value
TimeTo80PctSensor_native_value(s) ==
  IF s.current_soc >= SOC_THRESHOLD_PHASE2 THEN TIME_REMAINING_STATUS_REACHED
  ELSE IF s.duration_to_80_pct_seconds = None THEN TIME_REMAINING_STATUS_UNAVAILABLE
  ELSE IF s.duration_to_80_pct_seconds = 0 /\ ~(s.current_soc >= SOC_THRESHOLD_PHASE2)
       THEN <<"0", "0", ":", "0", "0">>
  ELSE format_hh_mm(s.duration_to_80_pct_seconds)

\* BMWCE02TimeToFullSensor.native_value
TimeToFullSensor_native_value(s) ==
  IF s.current_soc >= HUNDRED THEN TIME_REMAINING_STATUS_FULL
  ELSE IF s.duration_to_100_pct_seconds = None THEN TIME_REMAINING_STATUS_UNAVAILABLE
  ELSE IF s.duration_to_100_pct_seconds = 0 /\ ~(s.current_soc >= HUNDRED)
       THEN <<"0", "0", ":", "0", "0">>
  ELSE format_hh_mm(s.duration_to_100_pct_seconds)

(* ============================== claims ================================= *)
\* the step is one run of the periodic tick
TickStep == ops' # ops /\ last_op' \in TickOps

\* the adjusted power (W) a tick obtains from sensor state ps
ReadingW(ps) == IF ps.kind = "num" THEN (ps.w * LOST_FACTOR_NUM) \div LOST_FACTOR_DEN ELSE 0

\* C1: in both variants current_soc stays within [0, 100] in every
\* reachable state, whatever ticks, starts, stops and set_soc calls ran.
C1_SocWithinBounds == 0 <= c.current_soc /\ c.current_soc <= HUNDRED

\* C1 witness: an integration step of a tick ran into the upper clamp
C1_Witness ==
  /\ last_op = "tick_active"
  /\ c.current_soc = HUNDRED
  /\ c.last_soc_update_time = now
  /\ prev_op = "none"
  /\ c.soc_at_charge_start < HUNDRED

\* C2: in the measured variant total_energy_kwh never decreases over any
\* step (ticks, set_soc, display reads), whatever the sensor reports.
C2_EnergyMonotonic ==
  [][variant = "measured" => c'.total_energy >= c.total_energy]_vars

\* C2 witness: a session ended on a negative reading after energy had been
\* accumulated, and the total is still positive
C2_Witness ==
  /\ variant = "measured"
  /\ last_op = "tick_stop"
  /\ c.last_known_power_w < 0
  /\ c.last_soc_update_time = now
  /\ c.total_energy > 0

\* C3: whenever current_soc = 100, a tick with nonzero power (the session
\* staying active or being stopped by it) leaves current_soc = 100 and does
\* not increase total_energy_kwh.
C3_NoEnergyAtFull ==
  [][(/\ TickStep
      /\ c.current_soc = HUNDRED
      /\ (variant = "measured" => ReadingW(power_state') # 0))
     => (c'.current_soc = HUNDRED /\ c'.total_energy <= c.total_energy)]_vars

\* C4: in the measured variant, after every tick is_charging holds exactly
\* when the adjusted power read by that tick is strictly greater than
\* min_charging_power_w.
C4_ChargingIffAboveThreshold ==
  (variant = "measured" /\ last_op \in TickOps)
    => (c.is_charging <=> ReadingW(power_state) > min_charging_power_w)

\* C4 witness: a tick read a power exactly equal to the threshold while a
\* session was active and ended the session
C4_Witness ==
  /\ variant = "measured"
  /\ last_op = "tick_stop"
  /\ power_state.kind = "num"
  /\ ReadingW(power_state) = min_charging_power_w
  /\ ~c.is_charging

\* a tick of the measured variant that finds the sensor unavailable while a
\* session is active
UnavailableTickStep ==
  /\ variant = "measured"
  /\ TickStep
  /\ c.is_charging
  /\ power_state'.kind = "unavailable"

\* C5 as stated: such a tick ends the session and total_energy_kwh and
\* current_soc grow by last_known_power_kw times the interval since the
\* watermark.
C5_Original ==
  [][UnavailableTickStep =>
       LET energy == c.last_known_power_w * (now' - c.last_soc_update_time)
       IN  /\ ~c'.is_charging
           /\ c'.total_energy = c.total_energy + energy
           /\ c'.current_soc = c.current_soc + energy]_vars

\* C5 amended: such a tick ends the session and integrates the interval
\* since the watermark at last_known_power_kw: total_energy_kwh grows by
\* that energy when it is positive and is unchanged otherwise, current_soc
\* changes by the corresponding percentage clamped to [0, 100], and the
\* watermark moves to the tick time.
C5_FinalIntegrationAtLastKnownPower ==
  [][UnavailableTickStep =>
       LET energy == c.last_known_power_w * (now' - c.last_soc_update_time)
           target == c.current_soc + energy
       IN  /\ ~c'.is_charging
           /\ c'.total_energy = c.total_energy + (IF energy > 0 THEN energy ELSE 0)
           /\ c'.current_soc = (IF target > HUNDRED THEN HUNDRED
                                ELSE IF target < 0 THEN 0 ELSE target)
           /\ c'.last_soc_update_time = now']_vars

\* C5 witness: the sensor became unavailable, the tick stopped the session
\* and the partial final interval was added to the energy total
C5_Witness ==
  /\ variant = "measured"
  /\ last_op = "tick_stop"
  /\ power_state.kind = "unavailable"
  /\ prev_op = "none"
  /\ c.last_soc_update_time = now
  /\ c.last_known_power_w > 0
  /\ c.total_energy > 0
  /\ c.current_soc > c.soc_at_charge_start

\* C6: in both variants a valid set_soc during a session sets
\* last_integration_time to the call time, and a tick at that same time
\* leaves current_soc as set.
C6_SetSocRebasesWatermark ==
  [][/\ (ops' # ops /\ last_op' = "set_soc" /\ c'.is_charging)
          => c'.last_soc_update_time = now'
     /\ (last_op = "set_soc" /\ c.is_charging /\ TickStep /\ now' = now)
          => c'.current_soc = c.current_soc]_vars

\* C6 witness: a tick ran at the very time of a set_soc made during a
\* session that had been integrating from an earlier watermark
C6_Witness ==
  /\ last_op = "tick_active"
  /\ prev_op = "set_soc"
  /\ c.is_charging
  /\ c.last_soc_update_time = now
  /\ now > 0

C8_InvalidSetSocIsNoOp ==
  [][(ops' # ops /\ last_op' = "set_soc_invalid")
       => (c' = c /\ delivered' = NoCalls /\ ~raised')]_vars

\* C8 witness: an out-of-range set_soc was made with an observer registered
\* while a session was active
C8_Witness ==
  /\ last_op = "set_soc_invalid"
  /\ Len(c.update_callbacks) > 0
  /\ c.is_charging

C10_TickNotifiesEveryObserverOnce ==
  last_op \in TickOps =>
    /\ \A o \in Observers :
         delivered[o] = (IF \E i \in 1..Len(c.update_callbacks) : c.update_callbacks[i] = o
                         THEN 1 ELSE 0)
    /\ ~raised

\* the step is a call of start_session (fixed-profile variant)
StartCallStep == ops' # ops /\ last_op' \in {"start", "start_noop"}

\* C11: a session start (start_session while idle in the fixed-profile
\* variant, a tick that turns is_charging on in the measured-power variant)
\* leaves is_charging = true, soc_at_session_start = current_soc,
\* session_start_time = last_integration_time = the start time;
\* start_session while charging changes nothing and calls no observer.
C11_SessionStartSnapshot ==
  [][/\ ((StartCallStep /\ ~c.is_charging)
            \/ (variant = "measured" /\ TickStep /\ ~c.is_charging /\ c'.is_charging))
          => /\ c'.is_charging
             /\ c'.soc_at_charge_start = c'.current_soc
             /\ c'.current_soc = c.current_soc
             /\ c'.charge_start_time = now'
             /\ c'.last_soc_update_time = now'
     /\ (StartCallStep /\ c.is_charging)
          => (c' = c /\ delivered' = NoCalls /\ ~raised')]_vars

\* C11 witness: a session began at a later time than construction, from a
\* SoC that an earlier set_soc had set
C11_Witness ==
  /\ last_op \in {"start", "tick_start"}
  /\ c.is_charging
  /\ c.charge_start_time = now
  /\ c.last_soc_update_time = now
  /\ now > 0
  /\ c.soc_at_charge_start # DEFAULT_SOC

\* the step is a call of stop_session (fixed-profile variant)
StopCallStep == ops' # ops /\ last_op' \in {"stop", "stop_noop"}

\* the phase power (W) the fixed profile applies at SoC soc
PhasePowerW(soc) ==
  IF soc < 80 * PCT THEN 900 ELSE 517

\* C12: in the fixed-profile variant stop_session while not charging
\* changes nothing and calls no observer; stop_session while charging adds
\* the energy of the interval since the watermark at the phase power to
\* current_soc (up to 100), leaves is_charging = false and calls every
\* registered observer once.
C12_StopSessionFinalIntegration ==
  [][/\ (StopCallStep /\ ~c.is_charging)
          => (c' = c /\ delivered' = NoCalls /\ ~raised')
     /\ (StopCallStep /\ c.is_charging)
          => LET energy == PhasePowerW(c.current_soc) * (now' - c.last_soc_update_time)
                 target == c.current_soc + energy
             IN  /\ c'.current_soc = (IF target > HUNDRED THEN HUNDRED ELSE target)
                 /\ ~c'.is_charging
                 /\ \A o \in Observers :
                      delivered'[o] = (IF InList(c.update_callbacks, o) THEN 1 ELSE 0)]_vars

\* the step is an operation that ran _notify_updates
NotifyStep ==
  /\ ops' # ops
  /\ \/ variant = "fixed" /\ last_op' \in {"start", "stop", "tick_active", "set_soc"}
     \/ variant = "measured" /\ last_op' \in TickOps \cup {"set_soc"} /\ ~raised'

\* C13: registering an observer calls it once at once; every notification
\* calls each observer that is registered before and after it exactly once
\* (however often it was registered) and calls no observer that was not
\* registered when it began; removing an observer takes it off the list and
\* calls nothing.
C13_ObserverCalledOncePerNotification ==
  [][/\ (ops' # ops /\ last_op' = "register")
          => delivered' = [NoCalls EXCEPT ![callback_func'] = 1]
     /\ NotifyStep
          => \A o \in Observers :
               /\ (InList(c.update_callbacks, o) /\ InList(c'.update_callbacks, o))
                    => delivered'[o] = 1
               /\ ~InList(c.update_callbacks, o) => delivered'[o] = 0
     /\ (ops' # ops /\ last_op' = "remove")
          => (~InList(c'.update_callbacks, callback_func') /\ delivered' = NoCalls)]_vars

\* C14: when a registered observer raises during a notification, every
\* other registered observer is still called in that notification and the
\* operation raises nothing, in both variants.
C14_FailingObserverIsContained ==
  [][(NotifyStep /\ InList(c.update_callbacks, "bad"))
       => /\ \A o \in Observers \ {"bad"} :
               InList(c.update_callbacks, o) => delivered'[o] >= 1
          /\ ~raised']_vars

\* C15: when an observer is removed during a notification, every observer
\* that was registered when the notification began and is still registered
\* after it has been called exactly once in that notification.
C15_RemovalDuringNotificationIsSafe ==
  [][(NotifyStep /\ c'.update_callbacks # c.update_callbacks)
       => \A o \in Observers :
            (InList(c.update_callbacks, o) /\ InList(c'.update_callbacks, o))
              => delivered'[o] = 1]_vars

\* the last operation ran _update_duration_metrics
RecomputedDurations ==
  \/ variant = "fixed" /\ last_op \in {"start", "stop", "tick_active", "set_soc"}
  \/ variant = "measured" /\ last_op \in TickOps \cup {"set_soc"}

\* C16: when no session is active after an operation that recomputes the
\* durations, seconds_to_threshold is 0 if current_soc >= threshold and
\* null otherwise, seconds_to_full is 0 if current_soc >= 100 and null
\* otherwise, and elapsed_seconds is 0.
C16_IdleDurations ==
  (RecomputedDurations /\ ~c.is_charging)
    => /\ c.duration_to_80_pct_seconds = (IF c.current_soc >= 80 * PCT THEN 0 ELSE None)
       /\ c.duration_to_100_pct_seconds = (IF c.current_soc >= 100 * PCT THEN 0 ELSE None)
       /\ c.elapsed_charging_seconds = 0

\* C16 witness: a session that ran for some time was stopped between the
\* threshold and full charge
C16_Witness ==
  /\ last_op \in {"stop", "tick_stop"}
  /\ ~c.is_charging
  /\ c.charge_start_time # None
  /\ c.charge_start_time < now
  /\ c.current_soc >= 80 * PCT
  /\ c.current_soc < 100 * PCT
  /\ c.duration_to_80_pct_seconds = 0
  /\ c.duration_to_100_pct_seconds = None

\* seconds, rounded, to deliver energy n1 at p1 watts and then n2 at p2 watts
SecondsAtRates(n1, p1, n2, p2) ==
  round_mixed((n1 \div (p1 * 10)) + (n2 \div (p2 * 10)),
              (n1 % (p1 * 10)) * p2 + (n2 % (p2 * 10)) * p1,
              10 * p1 * p2)

\* the rate (W) the measured-power variant estimates with
MeasuredRateW == IF c.last_known_power_w > 200 THEN c.last_known_power_w ELSE 900

\* the SoC still missing below the threshold, and from there to full
NeededPhase1 == IF c.current_soc < 80 * PCT THEN 80 * PCT - c.current_soc ELSE 0
NeededPhase2 == 100 * PCT - (IF c.current_soc < 80 * PCT THEN 80 * PCT ELSE c.current_soc)

\* C17: while charging with current_soc < 100, seconds_to_full is the time
\* from current_soc to the threshold at the phase-1 rate plus the time from
\* max(current_soc, threshold) to 100 at the phase-2 rate, in both variants
\* (the measured-power variant has one rate, taken for both phases).
C17_SecondsToFullSpansBothPhases ==
  (RecomputedDurations /\ c.is_charging /\ c.current_soc < 100 * PCT)
    => c.duration_to_100_pct_seconds =
         (IF variant = "fixed"
          THEN SecondsAtRates(NeededPhase1, 900, NeededPhase2, 517)
          ELSE SecondsAtRates(NeededPhase1, MeasuredRateW, NeededPhase2, MeasuredRateW))

\* C18: while charging (both variants estimate with positive rates) the
\* recomputed seconds_to_threshold and seconds_to_full are non-null,
\* non-negative numbers, and the recomputation raises nothing.
C18_DurationsDefinedWhileCharging ==
  (RecomputedDurations /\ c.is_charging)
    => /\ c.duration_to_80_pct_seconds # None
       /\ c.duration_to_80_pct_seconds >= 0
       /\ c.duration_to_100_pct_seconds # None
       /\ c.duration_to_100_pct_seconds >= 0
       /\ (variant = "measured" => ~raised)

\* seconds_to_threshold for a session estimating at rate_w watts
SecondsToThreshold(rate_w) ==
  IF c.current_soc >= 80 * PCT THEN 0 ELSE round(NeededPhase1, rate_w * 10)

\* C19 as stated: while charging seconds_to_threshold is
\* round(((threshold - soc) / 100 * capacity) / rate * 3600) below the
\* threshold and 0 from it on, the rate being the phase-1 power in the
\* fixed-profile variant and the last known measured power floored to
\* 0.2 kW in the measured-power variant.
C19_Original ==
  (RecomputedDurations /\ c.is_charging)
    => c.duration_to_80_pct_seconds =
         SecondsToThreshold(IF variant = "fixed" THEN 900
                            ELSE IF c.last_known_power_w < 200 THEN 200
                            ELSE c.last_known_power_w)

\* C19 amended: the same, the rate of the measured-power variant being the
\* last known measured power when it exceeds 0.2 kW and 0.9 kW otherwise.
C19_SecondsToThreshold ==
  (RecomputedDurations /\ c.is_charging)
    => c.duration_to_80_pct_seconds =
         SecondsToThreshold(IF variant = "fixed" THEN 900 ELSE MeasuredRateW)

\* C19 witness: the durations were recomputed below the threshold during a
\* measured session whose last known power is not above 0.2 kW
C19_Witness ==
  /\ variant = "measured"
  /\ RecomputedDurations
  /\ c.is_charging
  /\ c.current_soc < 80 * PCT
  /\ c.last_known_power_w <= 200
  /\ c.duration_to_80_pct_seconds > 0

\* C20: a tick whose read of the power sensor fails (no entity configured,
\* no state, unknown, unavailable, unparseable) raises nothing, leaves the
\* last known power alone and treats the reading as 0 W: an active session
\* is stopped, none is started and an idle estimator keeps SoC and energy;
\* every registered observer is called once.
C20_FailedReadIsZeroPower ==
  [][(variant = "measured" /\ TickStep /\ power_state' \in FailedReads)
       => /\ ~raised'
          /\ c'.last_known_power_w = c.last_known_power_w
          /\ ~c'.is_charging
          /\ last_op' = (IF c.is_charging THEN "tick_stop" ELSE "tick_idle")
          /\ ~c.is_charging
               => (c'.current_soc = c.current_soc /\ c'.total_energy = c.total_energy)
          /\ \A o \in Observers :
               delivered'[o] = (IF InList(c.update_callbacks, o) THEN 1 ELSE 0)]_vars

\* C20 witness: an unparseable sensor state ended a session that had been
\* running for some time above the threshold SoC
C20_Witness ==
  /\ variant = "measured"
  /\ last_op = "tick_stop"
  /\ power_state.kind = "unparseable"
  /\ c.current_soc >= 80 * PCT
  /\ c.charge_start_time < now
  /\ ~raised

\* C24: while a session is active last_integration_time never moves
\* backwards over a tick or a set_soc call.
C24_WatermarkMonotonic ==
  [][(c.is_charging /\ c'.is_charging /\ c.last_soc_update_time # None)
       => (c'.last_soc_update_time # None
           /\ c'.last_soc_update_time >= c.last_soc_update_time)]_vars

\* C24 witness: a set_soc call made during a session after an integration
\* step had advanced the watermark beyond the session start
C24_Witness ==
  /\ variant = "measured"
  /\ last_op = "set_soc"
  /\ c.is_charging
  /\ c.last_soc_update_time = now
  /\ c.total_energy > 0
  /\ c.charge_start_time < now

\* C27: in the fixed-profile variant a tick never changes is_charging (a
\* session stays active at 100 % until stopped), is_charging changes only
\* in start_session and stop_session, and a tick while no session is
\* active changes no state and calls no observer.
C27_FixedTickNeverStartsOrStops ==
  [][variant = "fixed" =>
       /\ TickStep => c'.is_charging = c.is_charging
       /\ (TickStep /\ ~c.is_charging)
            => (c' = c /\ delivered' = NoCalls /\ ~raised')
       /\ c'.is_charging # c.is_charging
            => (StartCallStep \/ StopCallStep)]_vars

\* C27 witness: a tick ran in a session whose SoC has reached 100 % and the
\* session is still active
C27_Witness ==
  /\ variant = "fixed"
  /\ last_op = "tick_active"
  /\ c.is_charging
  /\ c.current_soc = 100 * PCT

\* the step ends a session (stop_session, or a tick of the measured-power
\* variant that turns is_charging off)
SessionStopStep ==
  ops' # ops /\ c.is_charging /\ ~c'.is_charging /\ c.last_soc_update_time # None

\* the interval since the watermark does not exceed the variant's epsilon
WithinEpsilon ==
  now' - c.last_soc_update_time <= (IF variant = "fixed" THEN 10 ELSE 1)

\* C30: a tick of a continuing session with dt <= epsilon changes neither
\* current_soc nor the watermark, whereas the step that stops a session
\* accounts for the interval since the watermark, however short, at the
\* power the variant integrates with (the phase power, or the power retained
\* by the stopping tick), up to the bounds of the SoC, and moves the
\* watermark to the stop time, in both variants.
C30_FinalStepAlwaysProcessed ==
  [][/\ (TickStep /\ c.is_charging /\ c'.is_charging
            /\ c.last_soc_update_time # None /\ WithinEpsilon)
          => (c'.current_soc = c.current_soc
              /\ c'.last_soc_update_time = c.last_soc_update_time)
     /\ SessionStopStep
          => LET power  == IF variant = "fixed" THEN PhasePowerW(c.current_soc)
                           ELSE c'.last_known_power_w
                 target == c.current_soc + power * (now' - c.last_soc_update_time)
             IN  /\ c'.last_soc_update_time = now'
                 /\ c'.current_soc = (IF target > 100 * PCT THEN 100 * PCT
                                      ELSE IF target < 0 THEN 0 ELSE target)]_vars

\* the power (W) a steady session of SpecIntegration integrates with
SteadyPowerW ==
  IF variant = "fixed" THEN PhasePowerW(c.soc_at_charge_start) ELSE c.last_known_power_w

\* a tick has just run in a session of constant power that has neither
\* crossed the phase threshold nor reached 100 %
SteadyTick ==
  /\ last_op = "tick_active"
  /\ c.is_charging
  /\ c.charge_start_time # None
  /\ c.last_soc_update_time # None
  /\ c.current_soc < 100 * PCT
  /\ (c.current_soc < 80 * PCT \/ c.soc_at_charge_start >= 80 * PCT)

\* C25 as stated: after a tick at time T of such a session the SoC gained
\* since the session start (and, in the measured-power variant, the total
\* energy) equals power x (T - start), however the ticks were spaced.
C25_Original ==
  SteadyTick =>
    /\ c.current_soc - c.soc_at_charge_start
         = SteadyPowerW * (now - c.charge_start_time)
    /\ variant = "measured"
         => c.total_energy = SteadyPowerW * (now - c.charge_start_time)

\* C25 amended: the gain equals power x (W - start), W being the
\* watermark after the tick; W is the tick's time T unless the tick came
\* within epsilon of the previous watermark, in which case it is skipped.
C25_PartitionIndependent ==
  SteadyTick =>
    /\ c.current_soc - c.soc_at_charge_start
         = SteadyPowerW * (c.last_soc_update_time - c.charge_start_time)
    /\ variant = "measured"
         => c.total_energy
              = SteadyPowerW * (c.last_soc_update_time - c.charge_start_time)
    /\ c.last_soc_update_time <= now
    /\ now - c.last_soc_update_time <= (IF variant = "fixed" THEN 10 ELSE 1)

\* C25 witness: an on-time tick and a late one (two ticks missed) were
\* integrated, in either order, and the gain is the power times the 240 s
C25_Witness ==
  /\ SteadyTick
  /\ c.last_soc_update_time = now
  /\ now - c.charge_start_time = 2400
  /\ c.current_soc - c.soc_at_charge_start = SteadyPowerW * 2400
  /\ c.current_soc > c.soc_at_charge_start

\* a step of the fixed-profile variant that integrates: a tick of an active
\* session or the stop of one, more than epsilon after the watermark, with
\* current_soc below 100 %
FixedIntegrationStep ==
  /\ variant = "fixed"
  /\ ops' # ops
  /\ last_op' \in {"tick_active", "stop"}
  /\ c.is_charging
  /\ c.last_soc_update_time # None
  /\ now' - c.last_soc_update_time > 10
  /\ c.current_soc < 100 * PCT

\* C26 as stated: in an integration step of the fixed-profile variant the
\* SoC gained below the threshold accrues at 900 W and the SoC gained at or
\* above it at 517 W; a step that crosses the threshold is split at the
\* crossing (to within one unit of rounding).
C26_Original ==
  [][FixedIntegrationStep =>
       LET dt      == now' - c.last_soc_update_time
           below   == 80 * PCT - c.current_soc
           phase1  == 900 * dt
           beyond  == 900 * (c'.current_soc - 80 * PCT) - 517 * (phase1 - below)
       IN  IF c.current_soc >= 80 * PCT
           THEN c'.current_soc = Min(100 * PCT, c.current_soc + 517 * dt)
           ELSE IF phase1 <= below
           THEN c'.current_soc = c.current_soc + phase1
           ELSE -900 < beyond /\ beyond < 900]_vars

\* C26 amended: the SoC gained in one integration step accrues at the
\* power selected by current_soc at the start of the step, 900 W below the
\* threshold and 517 W at or above it, for the whole interval, the portion
\* beyond a threshold crossing included.
C26_PhasePowerPerStep ==
  [][FixedIntegrationStep =>
       c'.current_soc
         = Min(100 * PCT,
               c.current_soc
                 + PhasePowerW(c.current_soc) * (now' - c.last_soc_update_time))]_vars

\* C26 witness: a tick took a session from 79.9 % across the threshold at
\* 900 W for its whole interval
C26_Witness ==
  /\ variant = "fixed"
  /\ last_op = "tick_active"
  /\ c.is_charging
  /\ c.soc_at_charge_start = 799 * (PCT \div 10)
  /\ c.last_soc_update_time = now
  /\ c.current_soc > 80 * PCT
  /\ c.current_soc = c.soc_at_charge_start + 900 * (now - c.charge_start_time)

\* the number a sequence of decimal digit characters denotes (-1 when a
\* character is not a digit or the sequence is empty)
RECURSIVE DigitsValue(_)
DigitsValue(text) ==
  IF Len(text) = 0 THEN -1
  ELSE LET last == text[Len(text)]
           d    == IF \E i \in 1..10 : DigitChars[i] = last
                   THEN (CHOOSE i \in 1..10 : DigitChars[i] = last) - 1 ELSE -1
           rest == IF Len(text) = 1 THEN 0 ELSE DigitsValue(SubSeq(text, 1, Len(text) - 1))
       IN  IF d < 0 \/ rest < 0 THEN -1 ELSE 10 * rest + d

\* text is the zero-padded HH:MM rendering of seconds: two minute digits
\* after a colon, at least two hour digits before it and no more than the
\* hours need
IsHoursMinutes(text, seconds) ==
  /\ Len(text) >= 5
  /\ text[Len(text) - 2] = ":"
  /\ DigitsValue(SubSeq(text, Len(text) - 1, Len(text))) = (seconds % 3600) \div 60
  /\ DigitsValue(SubSeq(text, 1, Len(text) - 3)) = seconds \div 3600
  /\ (seconds \div 3600 < 100 => Len(text) = 5)

\* the published value obeys the claim for a target SoC and a duration
RendersTimeRemaining(value, reached, sentinel, duration) ==
  /\ (value = sentinel) <=> reached
  /\ (~reached /\ duration = None) => value = <<"I", "n", "d", "i", "s", "p", "o", "n", "i", "b", "l", "e">>
  /\ (~reached /\ duration # None) => IsHoursMinutes(value, duration)

\* C28: in the measured-power variant the time-to-80 % value is "Atteint"
\* exactly when current_soc >= 80 and the time-to-full value is "Pleine"
\* exactly when current_soc >= 100; below the target the value is
\* "Indisponible" when the duration is null and otherwise the zero-padded
\* HH:MM of the duration (hours = seconds div 3600, minutes =
\* (seconds mod 3600) div 60).
C28_TimeRemainingRendering ==
  variant = "measured" =>
    /\ RendersTimeRemaining(TimeTo80PctSensor_native_value(c),
                            c.current_soc >= 80 * PCT,
                            <<"A", "t", "t", "e", "i", "n", "t">>,
                            c.duration_to_80_pct_seconds)
    /\ RendersTimeRemaining(TimeToFullSensor_native_value(c),
                            c.current_soc >= 100 * PCT,
                            <<"P", "l", "e", "i", "n", "e">>,
                            c.duration_to_100_pct_seconds)

\* C28 witness: charging at 253 W from 50 %, 16734 s remain to 80 % and
\* the sensor shows 04:38
C28_Witness ==
  /\ variant = "measured"
  /\ c.is_charging
  /\ c.duration_to_80_pct_seconds = 16734
  /\ TimeTo80PctSensor_native_value(c) = <<"0", "4", ":", "3", "8">>

\* the step is a call of async_unsubscribe_listeners
UnsubscribeStep == ops' # ops /\ last_op' = "unsubscribe"

\* C29: whatever sequence of async_initialize_listeners and
\* async_unsubscribe_listeners calls ran, at most one registration of the
\* periodic tick is active and it is the one the controller keeps; after
\* async_unsubscribe_listeners none is active, so that the host delivers no
\* tick, and a second call changes nothing and raises nothing.
C29_SingleTickRegistration ==
  [][/\ c'.timers <= 1
     /\ c'.timers = c'.listeners
     /\ UnsubscribeStep => (c'.timers = 0 /\ ~raised')
     /\ (UnsubscribeStep /\ last_op = "unsubscribe") => c' = c
     /\ TickStep => c.timers = 1]_vars

\* C29 witness: async_initialize_listeners ran twice in a row and one
\* registration is active
C29_Witness ==
  /\ last_op = "initialize"
  /\ prev_op = "initialize"
  /\ ~raised
  /\ c.timers = 1
  /\ c.listeners = 1

\* the step is a host restart (of any kind of damage to the store)
RestartStep == ops' # ops /\ last_op' \in {RestartOp(dm) : dm \in Damages}

\* C21: in the fixed-profile variant, when a persisted session is restored
\* and a persisted timestamp is missing or fails to parse, startup completes
\* (the tick is registered, no error escapes) with is_charging = true and
\* the affected session_start_time / last_integration_time equal to the
\* startup time.
C21_DamagedTimestampFallsBackToNow ==
  [][(variant = "fixed" /\ RestartStep /\ c.persisted_is_charging
        /\ last_op' # "restart")
       => /\ ~raised'
          /\ c'.timers = 1
          /\ c'.is_charging
          /\ last_op' \in {"start_missing", "start_malformed"}
               => c'.charge_start_time = now'
          /\ last_op' \in {"watermark_missing", "watermark_malformed"}
               => c'.last_soc_update_time = now']_vars

\* C22: after a host restart current_soc is, in both variants, the SoC
\* last published before the shutdown, that is the pre-shutdown current_soc
\* rounded to 0.1, and not the construction default.
C22_SocRestoredAfterRestart ==
  [][RestartStep => c'.current_soc = round_1(c.current_soc)]_vars

\* the timestamps the controller offers for storage parse
WellFormedPersisted ==
  c.is_charging => /\ c.persisted_charge_start_time_str.kind = "iso"
                   /\ c.persisted_last_soc_update_time_str.kind = "iso"

\* C23: in the fixed-profile variant, a restart with well-formed persisted
\* values, which the store returns as they are, leaves is_charging as it
\* was; a session that was active keeps its soc_at_session_start,
\* session_start_time and last_integration_time,
\* and the first tick after the restart integrates the whole interval since
\* that watermark at the phase power.
C23_SessionSurvivesRestart ==
  [][variant = "fixed" =>
       /\ (RestartStep /\ last_op' = "restart" /\ WellFormedPersisted)
            => /\ c'.is_charging = c.is_charging
               /\ c.is_charging
                    => /\ c'.soc_at_charge_start = c.soc_at_charge_start
                       /\ c'.charge_start_time = c.charge_start_time
                       /\ c'.last_soc_update_time = c.last_soc_update_time
       /\ (last_op = "restart" /\ TickStep /\ c.is_charging
              /\ c.current_soc < 100 * PCT
              /\ now' - c.last_soc_update_time > 10)
            => c'.current_soc
                 = Min(100 * PCT,
                       c.current_soc + PhasePowerW(c.current_soc)
                                         * (now' - c.last_soc_update_time))]_vars

\* a step that ends a session: is_charging goes from true to false
SessionEndStep == ops' # ops /\ c.is_charging /\ ~c'.is_charging

\* C31 as stated: a stop in the measured-power variant leaves
\* session_start_time null, a stop in the fixed-profile variant leaves it
\* as it was.
C31_Original ==
  [][SessionEndStep =>
       IF variant = "measured"
       THEN c'.charge_start_time = None
       ELSE c'.charge_start_time = c.charge_start_time]_vars

\* C31 amended: in both variants a stop retains session_start_time; it
\* keeps the start of the session that ended while is_charging is false.
C31_StopRetainsSessionStart ==
  [][SessionEndStep =>
       /\ c'.charge_start_time = c.charge_start_time
       /\ c'.charge_start_time # None]_vars

\* C31 witness: a tick of the measured-power variant has ended a session
\* and the session's start time is still there
C31_Witness ==
  /\ variant = "measured"
  /\ last_op = "tick_stop"
  /\ ~c.is_charging
  /\ c.charge_start_time # None
  /\ c.charge_start_time < now

\* a direct, non-final call of the measured revision's integration routine
\* that gets past the routine's earlier returns (session active, SoC below
\* 100, watermark set, interval above epsilon) with a last known power
\* below half of min_charging_power_w
LowPowerStep ==
  /\ ops' # ops
  /\ last_op' = "update_soc"
  /\ c.is_charging
  /\ c.current_soc < HUNDRED
  /\ c.last_soc_update_time # None
  /\ now' - c.last_soc_update_time > EPSILON_MEASURED
  /\ 2 * c.last_known_power_w < min_charging_power_w

\* C32: in the measured-power variant a non-final integration step whose
\* power is below half of min_charging_power_w moves last_integration_time
\* to now and changes neither total_energy_kwh nor current_soc.
C32_LowPowerAdvancesWatermarkOnly ==
  [][LowPowerStep =>
       /\ c'.last_soc_update_time = now'
       /\ c'.total_energy = c.total_energy
       /\ c'.current_soc = c.current_soc]_vars

\* C32 witness: the routine was called on an active session a tick
\* interval after the watermark with a negative last known power, and the
\* watermark is now the time of the call
C32_Witness ==
  /\ last_op = "update_soc"
  /\ c.is_charging
  /\ c.last_known_power_w < 0
  /\ now = TICK_INTERVAL
  /\ c.last_soc_update_time = now
  /\ c.total_energy = 0
  /\ c.current_soc = DEFAULT_SOC

\* the step ran _update_duration_metrics and a session is active after it
RecomputeWhileChargingStep ==
  ops' # ops /\ RecomputedDurations' /\ c'.is_charging

\* the step is a set_soc of the fixed-profile variant during a session
FixedSetSocInSessionStep ==
  variant = "fixed" /\ last_op' = "set_soc" /\ c.is_charging

\* C33 as stated: at each recomputation while charging elapsed_seconds is
\* round(now - session_start_time), and within one session it never
\* decreases from one recomputation to the next.
C33_Original ==
  [][RecomputeWhileChargingStep =>
       /\ c'.elapsed_charging_seconds =
            round(now' - c'.charge_start_time, TimeUnitsPerSecond)
       /\ c.is_charging =>
            c'.elapsed_charging_seconds >= c.elapsed_charging_seconds]_vars

\* C33 amended: at each recomputation while charging elapsed_seconds is
\* round(now - session_start_time); within one session it never decreases
\* from one recomputation to the next, except that a set_soc of the
\* fixed-profile variant moves session_start_time to now and restarts
\* elapsed_seconds from 0.
C33_ElapsedSinceSessionStart ==
  [][RecomputeWhileChargingStep =>
       /\ c'.elapsed_charging_seconds =
            round(now' - c'.charge_start_time, TimeUnitsPerSecond)
       /\ (c.is_charging /\ ~FixedSetSocInSessionStep) =>
            c'.elapsed_charging_seconds >= c.elapsed_charging_seconds
       /\ FixedSetSocInSessionStep =>
            c'.charge_start_time = now' /\ c'.elapsed_charging_seconds = 0]_vars

\* C33 witness: a set_soc of the fixed-profile variant, a tick interval or
\* more into a session, has moved the session start to now and
\* elapsed_seconds is 0
C33_Witness ==
  /\ variant = "fixed"
  /\ last_op = "set_soc"
  /\ c.is_charging
  /\ now >= TICK_INTERVAL
  /\ c.charge_start_time = now
  /\ c.elapsed_charging_seconds = 0

\* C34: in both variants a tick never lowers current_soc, whatever the
\* power sensor shows, negative readings included.
C34_TickNeverLowersSoc ==
  [][TickStep => c'.current_soc >= c.current_soc]_vars

\* the step is an entity reading the current power to render itself
DisplayReadStep == ops' # ops /\ last_op' = "display_read"

\* C35: reading the current power for display leaves the estimator as it
\* was; in particular last_known_power_kw keeps the value the last tick
\* saw.
C35_DisplayReadChangesNothing ==
  [][DisplayReadStep => c' = c]_vars

\* C36: in the measured-power variant the persisted SoC and energy total
\* are in the estimator before the first tick runs: a session that the
\* startup tick starts snapshots the restored SoC in soc_at_session_start,
\* and the energy total after startup is the restored one.
C36_RestoredBeforeFirstTick ==
  [][(variant = "measured" /\ RestartStep /\ c'.is_charging)
       => /\ c'.soc_at_charge_start = round_1(c.current_soc)
          /\ c'.total_energy = round_3(c.total_energy)]_vars

\* C37: in the fixed-profile variant the persisted snapshot mirrors the
\* live session after every controller operation, a restore that fell back
\* to "now" included: persisted_is_charging equals is_charging, and while
\* charging the persisted soc_at_session_start, session_start_time and
\* last_integration_time are the live values.
C37_PersistedMirrorsLive ==
  variant = "fixed" =>
    /\ c.persisted_is_charging = c.is_charging
    /\ c.is_charging =>
         /\ c.persisted_soc_at_charge_start = c.soc_at_charge_start
         /\ c.persisted_charge_start_time_str = isoformat(c.charge_start_time)
         /\ c.persisted_last_soc_update_time_str = isoformat(c.last_soc_update_time)

\* the step is a set_soc with a value in [0, 100]
ValidSetSocStep == ops' # ops /\ last_op' = "set_soc"

\* a set_soc without a session changed current_soc and the derived durations
\* only (and the observer list, when an observer took itself off it)
IdleSetSocFrame ==
  c' = [c EXCEPT !.current_soc = c'.current_soc,
                 !.elapsed_charging_seconds = c'.elapsed_charging_seconds,
                 !.duration_to_80_pct_seconds = c'.duration_to_80_pct_seconds,
                 !.duration_to_100_pct_seconds = c'.duration_to_100_pct_seconds,
                 !.update_callbacks = c'.update_callbacks]

\* C38 as stated: a valid set_soc during a session leaves
\* session_start_time and is_charging as they were in both variants; a
\* valid set_soc without a session changes only current_soc and the derived
\* durations.
C38_Original ==
  [][ValidSetSocStep =>
       IF c.is_charging
       THEN c'.is_charging /\ c'.charge_start_time = c.charge_start_time
       ELSE IdleSetSocFrame]_vars

\* C38 amended: a valid set_soc during a session leaves is_charging true in
\* both variants; it leaves session_start_time as it was in the
\* measured-power variant and moves it to now in the fixed-profile variant;
\* a valid set_soc without a session changes only current_soc and the
\* derived durations.
C38_SetSocSessionFrame ==
  [][ValidSetSocStep =>
       IF c.is_charging
       THEN /\ c'.is_charging
            /\ c'.charge_start_time =
                 (IF variant = "measured" THEN c.charge_start_time ELSE now')
       ELSE IdleSetSocFrame]_vars

\* C38 witness: a set_soc of the measured-power variant a tick interval
\* into a session; the session start is still the start and
\* elapsed_seconds counts from it
C38_Witness ==
  /\ variant = "measured"
  /\ last_op = "set_soc"
  /\ c.is_charging
  /\ c.charge_start_time = 0
  /\ now = TICK_INTERVAL
  /\ c.elapsed_charging_seconds = UPDATE_INTERVAL_CHARGING_SECONDS

\* the step is a tick of the measured-power variant after which a session
\* is active: the tick called the integration routine without final_update
NonFinalTickStep == variant = "measured" /\ TickStep /\ c'.is_charging

\* C40: in the measured-power variant with min_charging_power_w >= 0 the
\* power a tick's non-final integration step uses is strictly greater than
\* min_charging_power_w, so it is never below half of it.
C40_NonFinalPowerAboveThreshold ==
  [][NonFinalTickStep =>
       /\ c'.last_known_power_w > min_charging_power_w
       /\ ~(2 * c'.last_known_power_w < min_charging_power_w)]_vars

\* C40 witness: with the threshold at 0 W a tick has integrated a tick
\* interval of an active session at the smallest positive reading
C40_Witness ==
  /\ variant = "measured"
  /\ min_charging_power_w = 0
  /\ last_op = "tick_active"
  /\ c.is_charging
  /\ c.last_known_power_w = ReadingW(NumState(25))
  /\ c.last_soc_update_time = now
  /\ c.total_energy > 0

\* C39: in the fixed-profile variant, when a session stays active and
\* ticks keep arriving more than a second apart, current_soc eventually
\* is 100 and stays 100 from then on.
C39_EventuallyFull == <>[](c.is_charging /\ c.current_soc = HUNDRED)

\* C39 witness: the shortest ticks, one after the other, have brought a
\* session that started three of them below 100 to 100
C39_Witness ==
  /\ variant = "fixed"
  /\ last_op = "tick_active"
  /\ c.is_charging
  /\ c.soc_at_charge_start = HUNDRED - 3 * ShortestTickSoc
  /\ now = 3 * SHORTEST_TICK
  /\ c.current_soc = HUNDRED

====
